---- MODULE Spec2Model ----
(***************************************************************************)
(* A model of the echoes-mcp indexing pipeline: the content scanner        *)
(* (indexer/scanner.py), the embedding client (indexer/embeddings.py),     *)
(* the reconciliation run index_timeline (tools/index.py), the extractor   *)
(* vocabularies (indexer/extractor.py) and the record schemas              *)
(* (database/schemas.py).                                                  *)
(*                                                                         *)
(* Python values are represented as follows.  A file path is a record of   *)
(* the parts the scanner looks at (number of path segments, the arc        *)
(* directory, the episode directory, the hyphen-separated tokens of the    *)
(* stem).  A file content is a record of the kind of header block it       *)
(* starts with, the header keys the scanner reads, and its body.  A dict   *)
(* is a function, a list is a sequence.                                    *)
(***************************************************************************)
EXTENDS Integers, Sequences, FiniteSets, TLC

VARIABLES
    fs,              \* the content directory: path -> content, for the files present
    store,           \* the chapters table: a set of chapter records, one per id
    pc,              \* position of the index_timeline run
    args,            \* arguments of the run: force, arc_filter, quiet
    chapters,        \* index_timeline: the (filtered) scan, a sorted list
    existing_hashes, \* index_timeline: path -> hash as read from the store
    to_index,        \* index_timeline: chapters to (re-)embed, a list
    deleted_paths,   \* index_timeline: stored paths missing from the scan
    texts,           \* index_timeline: the texts handed to embed_texts
    records,         \* index_timeline: the records prepared for the upsert
    result,          \* index_timeline: the IndexResult returned
    error,           \* the exception a run ended with ("" when none)
    store0,          \* the store as it was when the run started
    calls,           \* calls the run has made: embed_texts, upsert, delete
    prev,            \* the last run, if it succeeded and no file changed since
    repeat,          \* the current run repeats prev with the same arguments
    cache,           \* lru_cache of get_embedding_model: keys, most recent last
    loads,           \* model name -> number of SentenceTransformer constructions
    scan,            \* the outcome of the last scan_content call on its own
    typed,           \* extractor labels normalized so far, with their outcome
    made,            \* the RelationRecord objects constructed so far
    attempt,         \* the last RelationRecord construction and its outcome
    ret              \* what the last direct call of the embedding client returned

vars == <<fs, store, pc, args, chapters, existing_hashes, to_index,
          deleted_paths, texts, records, result, error, store0, calls, prev,
          repeat, cache, loads, scan, typed, made, attempt, ret>>

\* the state of the index_timeline run and of its caller
runVars == <<pc, args, chapters, existing_hashes, to_index, deleted_paths,
             texts, records, result, error, store0, calls, prev, repeat>>

\* the state of the components index_timeline does not touch
sideVars == <<typed, made, attempt, ret>>

----------------------------------------------------------------------------
(* Generic helpers.                                                        *)

Range(s) == {s[i] : i \in DOMAIN s}

RECURSIVE SelectSeqBy(_, _)
\* a list comprehension [x for x in s if x in keep]
SelectSeqBy(s, keep) ==
    IF s = <<>> THEN <<>>
    ELSE IF Head(s) \in keep THEN <<Head(s)>> \o SelectSeqBy(Tail(s), keep)
         ELSE SelectSeqBy(Tail(s), keep)

\* all the lists that hold each element of S exactly once
Orderings(S) ==
    {s \in [1..Cardinality(S) -> S] : Range(s) = S}

----------------------------------------------------------------------------
(* Paths and file contents.                                                *)

\* Python's None where a hash (a non-negative number here) is expected
NoHash == 0 - 1

\* tokens of a directory name or of a file stem, split on "-"
Tok(k, n, s) == [k |-> k, n |-> n, s |-> s]
EpTok(n)   == Tok("ep", n, "ep")       \* "ep01": matches ep(\d+)
ChTok(n)   == Tok("ch", n, "ch")       \* "ch001"
Word(s)    == Tok("w", 0, s)           \* any other token

MkPath(parts, arc, dir, stem, reserved) ==
    [parts |-> parts, arc |-> arc, dir |-> dir, stem |-> stem,
     reserved |-> reserved]

\* file contents: hdr is the kind of header block the text starts with
\*   "none"    no leading --- marker, or no closing marker
\*   "map"     YAML that parses to a mapping (keys below; 0 / "" = key absent)
\*   "empty"   YAML that parses to a falsy value (nothing, 0, [], "")
\*   "yamlerr" YAML that fails to parse
\*   "scalar"  YAML that parses to a truthy non-mapping (a string, a list)
\*   "binary"  bytes that are not valid UTF-8
MkContent(hdr, episode, chapter, pov, txt) ==
    [hdr |-> hdr, episode |-> episode, chapter |-> chapter, pov |-> pov,
     txt |-> txt]

HdrKinds == <<"none", "map", "empty", "yamlerr", "scalar", "binary">>

Names == <<"", "alice", "Alice", "bob", "draft">>

IndexOf(seq, x) == CHOOSE i \in DOMAIN seq : seq[i] = x

\* str.lower(), on the strings of the model that hold an upper-case letter
Lower(s) ==
    CASE s = "Alice"   -> "alice"
      [] s = "E5"      -> "e5"
      [] s = "MiniLM"  -> "minilm"
      [] s = "-L12-v2" -> "-l12-v2"
      [] OTHER         -> s

----------------------------------------------------------------------------
(* indexer/scanner.py                                                      *)

\* compute_hash: the first 16 hex digits of SHA-256 of the text.  The digest
\* is a function of the whole text and of nothing else; it is taken to be
\* collision-free on the texts of the model.
compute_hash(content) ==
    ((((IndexOf(HdrKinds, content.hdr) * 4 + content.episode) * 4
        + content.chapter) * 8 + IndexOf(Names, content.pov)) * 4) + content.txt

\* parse_frontmatter: (metadata, body).  isdict says whether metadata is a
\* dict; a YAML error and a falsy document both give {}.
parse_frontmatter(content) ==
    IF content.hdr = "map"
    THEN [isdict |-> TRUE, episode |-> content.episode,
          chapter |-> content.chapter, pov |-> content.pov, body |-> content.txt]
    ELSE [isdict |-> content.hdr # "scalar", episode |-> 0, chapter |-> 0,
          pov |-> "", body |-> content.txt]

\* re.match(r"ep(\d+)", parts[1])
ep_match(file_path) == file_path.dir.k = "ep"

\* re.match(r"ep\d+-ch(\d+)", file_path.stem)
ch_match(file_path) ==
    /\ Len(file_path.stem) >= 2
    /\ file_path.stem[1].k = "ep"
    /\ file_path.stem[2].k = "ch"

\* extract_chapter_info returns None
ExtractNone(file_path, content) ==
    \/ content.hdr = "binary"
    \/ file_path.parts < 3

\* extract_chapter_info raises: metadata.get on a str or a list
\* (AttributeError), reached once the path has its three segments
ExtractRaises(file_path, content) ==
    /\ ~ExtractNone(file_path, content)
    /\ ~parse_frontmatter(content).isdict

\* PovOf with the file name consulted whether or not it matched ch_match
PovOfAnyName(file_path, metadata) ==
    LET pov0 == metadata.pov
        pov1 == IF pov0 = "" /\ Len(file_path.stem) >= 3
                THEN file_path.stem[3].s
                ELSE pov0
    IN  IF pov1 # "" THEN Lower(pov1) ELSE "unknown"

\* the point-of-view label
PovOf(file_path, metadata) ==
    LET pov0 == metadata.pov
        pov1 == IF pov0 = "" /\ ch_match(file_path) /\ Len(file_path.stem) >= 3
                THEN file_path.stem[3].s
                ELSE pov0
    IN  IF pov1 # "" THEN Lower(pov1) ELSE "unknown"

\* extract_chapter_info when it returns a ChapterFile
extract_chapter_info(file_path, content) ==
    LET metadata == parse_frontmatter(content)
        episode == IF ep_match(file_path) THEN file_path.dir.n
                   ELSE IF metadata.episode # 0 THEN metadata.episode ELSE 1
        chapter == IF ch_match(file_path) THEN file_path.stem[2].n
                   ELSE IF metadata.chapter # 0 THEN metadata.chapter ELSE 1
    IN  [file_path |-> file_path,
         file_hash |-> compute_hash(content),
         arc       |-> file_path.arc,
         episode   |-> episode,
         chapter   |-> chapter,
         pov       |-> PovOf(file_path, metadata),
         content   |-> metadata.body]

\* the files scan_content hands to extract_chapter_info
Candidates(dir) == {p \in DOMAIN dir : ~p.reserved}

\* scan_content raises
ScanRaises(dir) ==
    \E p \in Candidates(dir) : ExtractRaises(p, dir[p])

\* the chapters scan_content collects
ScanSet(dir) ==
    {extract_chapter_info(p, dir[p]) :
        p \in {q \in Candidates(dir) : ~ExtractNone(q, dir[q])}}

ArcRank(arc) == IF arc = "a" THEN 1 ELSE 2

\* the sort key (arc, episode, chapter)
KeyLeq(c, d) ==
    \/ ArcRank(c.arc) < ArcRank(d.arc)
    \/ /\ c.arc = d.arc
       /\ \/ c.episode < d.episode
          \/ c.episode = d.episode /\ c.chapter <= d.chapter

\* scan_content: the lists it may return.  The sort is stable, so chapters
\* with equal keys stay in rglob's order, which the filesystem decides.
scan_content(dir) ==
    {s \in Orderings(ScanSet(dir)) :
        \A i, j \in DOMAIN s : i < j => KeyLeq(s[i], s[j])}

----------------------------------------------------------------------------
(* indexer/embeddings.py                                                   *)

DEFAULT_MODEL == "intfloat/multilingual-e5-base"
MiniLM == "sentence-transformers/paraphrase-multilingual-MiniLM-L12-v2"
Gemma == "google/gemma-embedding-gg-308m"

\* a name of the same family as the default, written with a capital
E5Large == "intfloat/multilingual-E5-large"

ModelNames == {DEFAULT_MODEL, MiniLM, Gemma, E5Large}

\* a model name as the pieces the prefix test tells apart
NameTokens(model_name) ==
    CASE model_name = DEFAULT_MODEL ->
            <<"intfloat/multilingual-", "e5", "-base">>
      [] model_name = E5Large ->
            <<"intfloat/multilingual-", "E5", "-large">>
      [] model_name = MiniLM ->
            <<"sentence-transformers/paraphrase-multilingual-", "MiniLM",
              "-L12-v2">>
      [] model_name = Gemma ->
            <<"google/gemma-embedding-gg-308m">>

\* the model_name argument left at its default, None
NoModel == "None"

\* maxsize of the lru_cache on get_embedding_model
LruMaxSize == 1

\* model_name or DEFAULT_MODEL
ModelOr(model_name) == IF model_name = NoModel THEN DEFAULT_MODEL ELSE model_name

\* the prefix test with the lower() lost: "e5" in model_name
IsE5CaseSensitive(model_name) == "e5" \in Range(NameTokens(model_name))

\* "e5" in model_name.lower()
IsE5(model_name) ==
    "e5" \in {Lower(t) : t \in Range(NameTokens(model_name))}

\* the list s without x
Without(s, x) == SelectSeqBy(s, Range(s) \ {x})

\* lru_cache: get_embedding_model(key) is served from the cache
CacheHit(c, key) == key \in Range(c)

\* lru_cache after get_embedding_model(key): key becomes the most recent
\* entry and the least recent ones beyond maxsize are dropped
CacheAfter(c, key) ==
    LET c2 == Append(Without(c, key), key)
    IN  IF Len(c2) > LruMaxSize
        THEN SubSeq(c2, Len(c2) - LruMaxSize + 1, Len(c2))
        ELSE c2

\* get_embedding_model(key): SentenceTransformer(key or DEFAULT_MODEL) is
\* constructed on a cache miss only
LoadsAfter(l, c, key) ==
    IF CacheHit(c, key) THEN l
    ELSE [l EXCEPT ![ModelOr(key)] = @ + 1]

\* model.encode: the vector is a function of the model and the text given
Encode(model, text) == <<model, text>>

\* embed_texts(ts, model_name) past the empty-list return: the vectors
embed_texts(ts, model_name) ==
    LET name == ModelOr(model_name)
    IN  [i \in DOMAIN ts |->
            Encode(name, IF IsE5(name) THEN <<"passage: ", ts[i]>>
                                       ELSE <<"", ts[i]>>)]

\* embed_query testing the name as given while embed_texts lowers it
embed_query_CaseSensitive(query, model_name) ==
    LET name == ModelOr(model_name)
    IN  Encode(name, IF IsE5CaseSensitive(name) THEN <<"query: ", query>>
                                                ELSE <<"", query>>)

\* embed_query(query, model_name): the vector
embed_query(query, model_name) ==
    LET name == ModelOr(model_name)
    IN  Encode(name, IF IsE5(name) THEN <<"query: ", query>>
                                   ELSE <<"", query>>)

----------------------------------------------------------------------------
(* The chapters table behind Database.  The class is not part of the       *)
(* sources at hand; its three operations follow the store contract:        *)
(* upsert by chapter id, delete by file path, fetch all (path, hash).      *)

EmptyMap == [p \in {} |-> NoHash]

StoredPaths(db) == {r.file_path : r \in db}

\* db.get_chapter_hashes(): the dicts it may return.  Rows that share a
\* file path leave one hash under that key; which one is the row order's.
get_chapter_hashes(db) ==
    {h \in [StoredPaths(db) -> {r.file_hash : r \in db}] :
        \A p \in StoredPaths(db) :
            \E r \in db : r.file_path = p /\ r.file_hash = h[p]}

\* one record upserted: the row with the same id is replaced
Upsert1(db, rec) == {r \in db : r.id # rec.id} \cup {rec}

RECURSIVE upsert_chapters(_, _)
\* db.upsert_chapters(recs): the records are upserted in list order
upsert_chapters(db, recs) ==
    IF recs = <<>> THEN db
    ELSE upsert_chapters(Upsert1(db, Head(recs)), Tail(recs))

\* db.delete_chapters_by_paths(paths): the rows left
delete_chapters_by_paths(db, paths) == {r \in db : r.file_path \notin paths}

\* db.delete_chapters_by_paths(paths): the number of rows deleted
DeletedCount(db, paths) == Cardinality({r \in db : r.file_path \in paths})

----------------------------------------------------------------------------
(* The content directories and the calls of the model.                     *)

\* bodies are numbered 1..MaxTxt
MaxTxt == 2

\* two chapter files of arc "a" that derive the same chapter id, and one of
\* arc "b"
PA1 == MkPath(3, "a", EpTok(1), <<EpTok(1), ChTok(1), Word("alice")>>, FALSE)
PA2 == MkPath(3, "a", EpTok(1), <<EpTok(1), ChTok(1), Word("bob")>>, FALSE)
PB1 == MkPath(3, "b", EpTok(1), <<EpTok(1), ChTok(1), Word("Alice")>>, FALSE)

Paths == {PA1, PA2, PB1}

\* texts without a header block, and one whose header is a bare string
Contents ==
    {MkContent("none", 0, 0, "", t) : t \in 1..MaxTxt}
        \cup {MkContent("scalar", 0, 0, "", 1)}

ArcFilters == {"", "a", "b"}       \* "" stands for no filter (falsy)

MkArgs(force, arc_filter, quiet) ==
    [force |-> force, arc_filter |-> arc_filter, quiet |-> quiet]

ZeroCalls == [embed |-> 0, upsert |-> 0, delete |-> 0]

NoPrev == [ok |-> FALSE, args |-> MkArgs(FALSE, "", FALSE)]

\* no scan_content call since the directory last changed
NoScan == [status |-> "none", chapters |-> <<>>]

\* no RelationRecord construction yet
NoAttempt == [weight |-> 0, outcome |-> "none"]

\* no direct call of the embedding client yet
NoRet == [call |-> "none", vectors |-> <<>>]

----------------------------------------------------------------------------
(* tools/index.py                                                          *)

\* IndexResult (duration_seconds left out)
IndexResult(indexed, updated, deleted) ==
    [indexed |-> indexed, updated |-> updated, deleted |-> deleted,
     entities |-> 0, relations |-> 0]

\* prepare_chapter_record: id is "arc:epNN:chNNN"; the statistics and the
\* timestamp are left out
prepare_chapter_record(chapter, vector) ==
    [id        |-> <<chapter.arc, chapter.episode, chapter.chapter>>,
     file_path |-> chapter.file_path,
     file_hash |-> chapter.file_hash,
     vector    |-> vector]

\* existing_hashes.get(path)
HashGet(hashes, path) ==
    IF path \in DOMAIN hashes THEN hashes[path] ELSE NoHash

\* chapters = [c for c in chapters if c["arc"] == arc_filter]
ArcFiltered(scanned, arc_filter) ==
    IF arc_filter # ""
    THEN SelectSeqBy(scanned, {c \in Range(scanned) : c.arc = arc_filter})
    ELSE scanned

\* ToIndex with the hash comparison lost: only paths the store does not know
ToIndexNewOnly(chs, hashes) ==
    SelectSeqBy(chs, {c \in Range(chs) : c.file_path \notin DOMAIN hashes})

\* the chapters whose stored hash is not the fresh one
ToIndex(chs, hashes) ==
    SelectSeqBy(chs, {c \in Range(chs) :
                        HashGet(hashes, c.file_path) # c.file_hash})

\* deleted_paths = [p for p in existing_hashes if p not in current_paths]
DeletedPaths(chs, hashes) ==
    LET current_paths == {c.file_path : c \in Range(chs)}
    IN  {p \in DOMAIN hashes : p \notin current_paths}

\* NoChanges with the second "not" lost
NoChangesIfDeleted(ti, dp) == ti = <<>> /\ dp # {}

\* if not to_index and not deleted_paths
NoChanges(ti, dp) == ti = <<>> /\ dp = {}

\* texts = [c["content"][:2000] for c in to_index]; the bodies of the model
\* are shorter than the 2000 characters kept
Texts(ti) == [i \in DOMAIN ti |-> ti[i].content]

\* records: zip(to_index, vectors)
Records(ti, vectors) ==
    [i \in DOMAIN ti |-> prepare_chapter_record(ti[i], vectors[i])]

\* CountIndexed looking the record's hash up among the stored hashes
CountIndexedByHash(recs, hashes) ==
    Cardinality({i \in DOMAIN recs :
                    recs[i].file_hash \notin {hashes[p] : p \in DOMAIN hashes}})

\* indexed = sum(1 for r in records if r["file_path"] not in existing_hashes)
CountIndexed(recs, hashes) ==
    Cardinality({i \in DOMAIN recs : recs[i].file_path \notin DOMAIN hashes})

\* ExistingHashes with the force flag ignored
ExistingHashesStored(force, db) == get_chapter_hashes(db)

\* existing_hashes = {} if force else db.get_chapter_hashes()
ExistingHashes(force, db) ==
    IF force THEN {EmptyMap} ELSE get_chapter_hashes(db)

Idle == pc \in {"idle", "done", "failed"}

\* the run returns res
Return(res, a) ==
    /\ pc' = "done"
    /\ result' = res
    /\ error' = ""
    /\ prev' = [ok |-> TRUE, args |-> a]

\* the run ends with an exception
Raise(err) ==
    /\ pc' = "failed"
    /\ error' = err
    /\ prev' = NoPrev
    /\ UNCHANGED result

\* index_timeline up to the embedding: scan, filter, read the stored hashes,
\* diff, and the two early returns
Start(force, arc_filter, quiet) ==
    /\ Idle
    /\ args' = MkArgs(force, arc_filter, quiet)
    /\ repeat' = (prev.ok /\ prev.args = args')
    /\ store0' = store
    /\ calls' = ZeroCalls
    /\ texts' = <<>>
    /\ records' = <<>>
    /\ UNCHANGED <<fs, store, cache, loads, scan, sideVars>>
    /\ IF ScanRaises(fs)
       THEN /\ Raise("AttributeError")
            /\ chapters' = <<>>
            /\ existing_hashes' = EmptyMap
            /\ to_index' = <<>>
            /\ deleted_paths' = {}
       ELSE \E scanned \in scan_content(fs) :
            LET chs == ArcFiltered(scanned, arc_filter)
            IN  /\ chapters' = chs
                /\ IF chs = <<>>
                   THEN /\ Return(IndexResult(0, 0, 0), args')
                        /\ existing_hashes' = EmptyMap
                        /\ to_index' = <<>>
                        /\ deleted_paths' = {}
                   ELSE \E hashes \in ExistingHashes(force, store) :
                        /\ existing_hashes' = hashes
                        /\ to_index' = ToIndex(chs, hashes)
                        /\ deleted_paths' = DeletedPaths(chs, hashes)
                        /\ IF NoChanges(to_index', deleted_paths')
                           THEN Return(IndexResult(0, 0, 0), args')
                           ELSE /\ pc' = "embed"
                                /\ result' = IndexResult(0, 0, 0)
                                /\ error' = ""
                                /\ prev' = NoPrev

\* nothing to embed: records stays empty
EmbedSkip ==
    /\ pc = "embed"
    /\ to_index = <<>>
    /\ pc' = "save"
    /\ UNCHANGED <<fs, store, args, chapters, existing_hashes, to_index,
                   deleted_paths, texts, records, result, error, store0,
                   calls, prev, repeat, cache, loads, scan, sideVars>>

\* quiet: vectors = embed_texts(texts), then the records are prepared
EmbedQuiet ==
    /\ pc = "embed"
    /\ to_index # <<>>
    /\ args.quiet
    /\ texts' = Texts(to_index)
    /\ calls' = [calls EXCEPT !.embed = @ + 1]
    /\ cache' = CacheAfter(cache, DEFAULT_MODEL)
    /\ loads' = LoadsAfter(loads, cache, DEFAULT_MODEL)
    /\ records' = Records(to_index, embed_texts(texts', NoModel))
    /\ pc' = "save"
    /\ UNCHANGED <<fs, store, args, chapters, existing_hashes, to_index,
                   deleted_paths, result, error, store0, prev, repeat, scan,
                   sideVars>>

\* EmbedFails with the exception swallowed: the run goes on without records
EmbedFailsSwallowed ==
    /\ pc = "embed"
    /\ to_index # <<>>
    /\ args.quiet
    /\ texts' = Texts(to_index)
    /\ calls' = [calls EXCEPT !.embed = @ + 1]
    /\ pc' = "save"
    /\ UNCHANGED <<fs, store, args, chapters, existing_hashes, to_index,
                   deleted_paths, records, result, error, store0, prev,
                   repeat, cache, loads, scan, sideVars>>

\* quiet: embed_texts raises (the model fails to load, or to encode after
\* it was loaded); the exception leaves index_timeline
EmbedFails ==
    /\ pc = "embed"
    /\ to_index # <<>>
    /\ args.quiet
    /\ texts' = Texts(to_index)
    /\ calls' = [calls EXCEPT !.embed = @ + 1]
    /\ \/ UNCHANGED <<cache, loads>>
       \/ /\ cache' = CacheAfter(cache, DEFAULT_MODEL)
          /\ loads' = LoadsAfter(loads, cache, DEFAULT_MODEL)
    /\ Raise("EmbeddingError")
    /\ UNCHANGED <<fs, store, args, chapters, existing_hashes, to_index,
                   deleted_paths, records, store0, repeat, scan, sideVars>>

\* not quiet: embed_texts(texts, progress_callback=...) is a call with a
\* keyword embed_texts does not take: TypeError, before its body runs
EmbedProgress ==
    /\ pc = "embed"
    /\ to_index # <<>>
    /\ ~args.quiet
    /\ texts' = Texts(to_index)
    /\ Raise("TypeError")
    /\ UNCHANGED <<fs, store, args, chapters, existing_hashes, to_index,
                   deleted_paths, records, store0, calls, repeat, cache, loads,
                   scan, sideVars>>

\* Save with the delete issued together with the upsert rather than after it
SaveWithDelete ==
    /\ pc = "save"
    /\ LET indexed == CountIndexed(records, existing_hashes)
           updated == Len(records) - indexed
       IN  result' = IndexResult(indexed, updated, 0)
    /\ store' = delete_chapters_by_paths(upsert_chapters(store, records),
                                         deleted_paths)
    /\ calls' = [calls EXCEPT !.upsert = @ + 1, !.delete = @ + 1]
    /\ pc' = "delete"
    /\ UNCHANGED <<fs, args, chapters, existing_hashes, to_index,
                   deleted_paths, texts, records, error, store0, prev, repeat,
                   cache, loads, scan, sideVars>>

\* count new vs updated, then the one upsert of all the records
Save ==
    /\ pc = "save"
    /\ LET indexed == CountIndexed(records, existing_hashes)
           updated == Len(records) - indexed
       IN  result' = IndexResult(indexed, updated, 0)
    /\ IF records # <<>>
       THEN /\ store' = upsert_chapters(store, records)
            /\ calls' = [calls EXCEPT !.upsert = @ + 1]
       ELSE UNCHANGED <<store, calls>>
    /\ pc' = "delete"
    /\ UNCHANGED <<fs, args, chapters, existing_hashes, to_index,
                   deleted_paths, texts, records, error, store0, prev, repeat,
                   cache, loads, scan, sideVars>>

\* delete the removed chapters and return the counts
Delete ==
    /\ pc = "delete"
    /\ LET deleted == IF deleted_paths # {}
                      THEN DeletedCount(store, deleted_paths) ELSE 0
       IN  Return(IndexResult(result.indexed, result.updated, deleted), args)
    /\ IF deleted_paths # {}
       THEN /\ store' = delete_chapters_by_paths(store, deleted_paths)
            /\ calls' = [calls EXCEPT !.delete = @ + 1]
       ELSE UNCHANGED <<store, calls>>
    /\ UNCHANGED <<fs, args, chapters, existing_hashes, to_index,
                   deleted_paths, texts, records, store0, repeat, cache, loads,
                   scan, sideVars>>

\* between two runs nothing of the last one is left but the store and the
\* model cache
Forget ==
    /\ pc' = "idle"
    /\ args' = MkArgs(FALSE, "", FALSE)
    /\ chapters' = <<>>
    /\ existing_hashes' = EmptyMap
    /\ to_index' = <<>>
    /\ deleted_paths' = {}
    /\ texts' = <<>>
    /\ records' = <<>>
    /\ result' = IndexResult(0, 0, 0)
    /\ error' = ""
    /\ store0' = {}
    /\ calls' = ZeroCalls
    /\ prev' = NoPrev
    /\ repeat' = FALSE
    /\ scan' = NoScan

\* the author creates or edits a file between two runs
WriteFile(p, c) ==
    /\ Idle
    /\ IF p \in DOMAIN fs THEN fs[p] # c ELSE TRUE
    /\ fs' = [q \in DOMAIN fs \cup {p} |-> IF q = p THEN c ELSE fs[q]]
    /\ Forget
    /\ UNCHANGED <<store, cache, loads, sideVars>>

\* the author removes a file between two runs
RemoveFile(p) ==
    /\ Idle
    /\ p \in DOMAIN fs
    /\ fs' = [q \in DOMAIN fs \ {p} |-> fs[q]]
    /\ Forget
    /\ UNCHANGED <<store, cache, loads, sideVars>>

\* an empty content directory, an empty store, a fresh process
Init ==
    /\ fs = [p \in {} |-> MkContent("none", 0, 0, "", 1)]
    /\ store = {}
    /\ pc = "idle"
    /\ args = MkArgs(FALSE, "", FALSE)
    /\ chapters = <<>>
    /\ existing_hashes = EmptyMap
    /\ to_index = <<>>
    /\ deleted_paths = {}
    /\ texts = <<>>
    /\ records = <<>>
    /\ result = IndexResult(0, 0, 0)
    /\ error = ""
    /\ store0 = {}
    /\ calls = ZeroCalls
    /\ prev = NoPrev
    /\ repeat = FALSE
    /\ cache = <<>>
    /\ loads = [m \in ModelNames |-> 0]
    /\ scan = NoScan
    /\ typed = {}
    /\ made = {}
    /\ attempt = NoAttempt
    /\ ret = NoRet

Next ==
    \/ \E force \in BOOLEAN, arc_filter \in ArcFilters, quiet \in BOOLEAN :
            Start(force, arc_filter, quiet)
    \/ EmbedSkip
    \/ EmbedQuiet
    \/ EmbedFails
    \/ EmbedProgress
    \/ Save
    \/ Delete
    \/ \E p \in Paths, c \in Contents : WriteFile(p, c)
    \/ \E p \in Paths : RemoveFile(p)

Spec == Init /\ [][Next]_vars

----------------------------------------------------------------------------
(* The embedding client called on its own, as the search tools and the     *)
(* extractor do: any sequence of get_embedding_model, embed_texts and      *)
(* embed_query calls with any model names.                                 *)

\* no model is loaded more than MaxLoads times in the model
MaxLoads == 2

ModelKeys == ModelNames \cup {NoModel}

TextLists == {<<>>, <<1>>, <<1, 2>>}

\* get_embedding_model(key) through the lru_cache
GetModel(key) ==
    /\ LoadsAfter(loads, cache, key)[ModelOr(key)] <= MaxLoads
    /\ cache' = CacheAfter(cache, key)
    /\ loads' = LoadsAfter(loads, cache, key)

\* a caller asks for the model itself
CallGetEmbeddingModel(key) ==
    /\ GetModel(key)
    /\ ret' = [call |-> "get_embedding_model", vectors |-> <<>>]
    /\ UNCHANGED <<fs, store, runVars, scan, typed, made, attempt>>

\* embed_texts with the empty-list return lost: the model is fetched first
CallEmbedTextsEager(ts, model_name) ==
    /\ GetModel(ModelOr(model_name))
    /\ ret' = [call |-> "embed_texts", vectors |-> embed_texts(ts, model_name)]
    /\ UNCHANGED <<fs, store, runVars, scan, typed, made, attempt>>

\* embed_texts(ts, model_name): an empty list returns [] at once, otherwise
\* the model is fetched under its resolved name and encodes the texts
CallEmbedTexts(ts, model_name) ==
    /\ IF ts = <<>>
       THEN UNCHANGED <<cache, loads>>
       ELSE GetModel(ModelOr(model_name))
    /\ ret' = [call |-> "embed_texts", vectors |-> embed_texts(ts, model_name)]
    /\ UNCHANGED <<fs, store, runVars, scan, typed, made, attempt>>

\* embed_query(query, model_name)
CallEmbedQuery(query, model_name) ==
    /\ GetModel(ModelOr(model_name))
    /\ ret' = [call |-> "embed_query",
               vectors |-> <<embed_query(query, model_name)>>]
    /\ UNCHANGED <<fs, store, runVars, scan, typed, made, attempt>>

NextEmbed ==
    \/ \E key \in ModelKeys : CallGetEmbeddingModel(key)
    \/ \E ts \in TextLists, m \in ModelKeys : CallEmbedTexts(ts, m)
    \/ \E q \in 1..MaxTxt, m \in ModelKeys : CallEmbedQuery(q, m)

SpecEmbed == Init /\ [][NextEmbed]_vars

----------------------------------------------------------------------------
(* The scanner called on its own over directories that hold every kind of  *)
(* file it tells apart.                                                    *)

\* ep01-.../ep01-ch001-Alice.md
SP1 == MkPath(3, "a", EpTok(1), <<EpTok(1), ChTok(1), Word("Alice")>>, FALSE)
\* ep02-.../ep02-ch002.md
SP2 == MkPath(3, "a", EpTok(2), <<EpTok(2), ChTok(2)>>, FALSE)
\* notes/intro-by-bob.md: neither name follows the convention
SP3 == MkPath(3, "b", Word("notes"), <<Word("intro"), Word("by"), Word("bob")>>,
              FALSE)
\* b/draft.md: two path segments only
SP4 == MkPath(2, "b", Word(""), <<Word("draft")>>, FALSE)
\* ep01-.../README.md
SP5 == MkPath(3, "a", EpTok(1), <<Word("README")>>, TRUE)

ScanPaths == {SP1, SP2, SP3, SP4, SP5}

ScanContents ==
    {MkContent("none", 0, 0, "", t) : t \in 1..MaxTxt}
        \cup {MkContent("map", 2, 2, "Alice", 1),
              MkContent("yamlerr", 0, 0, "", 1),
              MkContent("scalar", 0, 0, "", 1),
              MkContent("binary", 0, 0, "", 1)}

\* scan_content(content_path) called by itself
ScanContent ==
    /\ pc = "idle"
    /\ IF ScanRaises(fs)
       THEN scan' = [status |-> "raised", chapters |-> <<>>]
       ELSE \E s \in scan_content(fs) :
                scan' = [status |-> "ok", chapters |-> s]
    /\ UNCHANGED <<fs, store, runVars, cache, loads, sideVars>>

NextScan ==
    \/ \E p \in ScanPaths, c \in ScanContents : WriteFile(p, c)
    \/ \E p \in ScanPaths : RemoveFile(p)
    \/ ScanContent

SpecScan == Init /\ [][NextScan]_vars

----------------------------------------------------------------------------
(* indexer/extractor.py and database/schemas.py: the vocabularies.         *)

\* ENTITY_TYPES with a label added that the mapping table was not given
ENTITY_TYPES_Emozione ==
    <<"PERSONAGGIO", "LUOGO", "EVENTO", "OGGETTO", "EMOZIONE">>

ENTITY_TYPES == <<"PERSONAGGIO", "LUOGO", "EVENTO", "OGGETTO">>

RELATION_TYPES ==
    <<"AMA", "ODIA", "CONOSCE", "PARENTE_DI", "AMICO_DI",
      "SI_TROVA_IN", "VIVE_A", "VA_A",
      "CAUSA", "PRECEDE", "SEGUE",
      "POSSIEDE", "USA">>

EntityType == {"CHARACTER", "LOCATION", "EVENT", "OBJECT", "EMOTION"}

RelationType ==
    {"LOVES", "HATES", "KNOWS", "RELATED_TO", "FRIENDS_WITH", "ENEMIES_WITH",
     "LOCATED_IN", "LIVES_IN", "TRAVELS_TO",
     "HAPPENS_BEFORE", "HAPPENS_AFTER", "CAUSES",
     "OWNS", "USES", "SEEKS"}

\* The two mapping tables are imported by tests/test_extractor.py from the
\* extractor but are not in the extractor at hand.  A table is a set of
\* (label, canonical label) entries.  The entity entries and the first five
\* relation entries are those the tests assert; the other relation entries
\* follow the requirement that the table covers the whole vocabulary.
ENTITY_TYPE_MAP ==
    {<<"PERSONAGGIO", "CHARACTER">>, <<"LUOGO", "LOCATION">>,
     <<"EVENTO", "EVENT">>, <<"OGGETTO", "OBJECT">>}

RELATION_TYPE_MAP ==
    {<<"AMA", "LOVES">>, <<"ODIA", "HATES">>, <<"CONOSCE", "KNOWS">>,
     <<"SI_TROVA_IN", "LOCATED_IN">>, <<"VIVE_A", "LIVES_IN">>,
     <<"PARENTE_DI", "RELATED_TO">>, <<"AMICO_DI", "FRIENDS_WITH">>,
     <<"VA_A", "TRAVELS_TO">>, <<"CAUSA", "CAUSES">>,
     <<"PRECEDE", "HAPPENS_BEFORE">>, <<"SEGUE", "HAPPENS_AFTER">>,
     <<"POSSIEDE", "OWNS">>, <<"USA", "USES">>}

\* the entries a table holds for a label
Entries(table, label) == {e \in table : e[1] = label}

\* table[label]: the canonical label, or the lookup's failure
Normalize(table, label) ==
    IF Entries(table, label) = {} THEN "UnknownTypeError"
    ELSE (CHOOSE e \in Entries(table, label) : TRUE)[2]

\* at most MaxTyped labels are normalized in the model
MaxTyped == 2

\* the extractor emits an entity label of its vocabulary and it is normalized
NormalizeEntity(label) ==
    /\ Cardinality(typed) < MaxTyped
    /\ typed' = typed \cup {[kind |-> "entity", label |-> label,
                             canon |-> Normalize(ENTITY_TYPE_MAP, label)]}
    /\ UNCHANGED <<fs, store, runVars, cache, loads, scan, made, attempt, ret>>

\* the extractor emits a relation label of its vocabulary and it is normalized
NormalizeRelation(label) ==
    /\ Cardinality(typed) < MaxTyped
    /\ typed' = typed \cup {[kind |-> "relation", label |-> label,
                             canon |-> Normalize(RELATION_TYPE_MAP, label)]}
    /\ UNCHANGED <<fs, store, runVars, cache, loads, scan, made, attempt, ret>>

NextTypes ==
    \/ \E label \in Range(ENTITY_TYPES) : NormalizeEntity(label)
    \/ \E label \in Range(RELATION_TYPES) : NormalizeRelation(label)

SpecTypes == Init /\ [][NextTypes]_vars

----------------------------------------------------------------------------
(* database/schemas.py: RelationRecord.  Weights are counted in tenths.    *)

\* weight: float = Field(ge=0.0, le=1.0)
WeightGe == 0
WeightLe == 10

\* the weights tried run from MaxOver tenths below 0.0 to MaxOver above 1.0
MaxOver == 3

Weights == (WeightGe - MaxOver)..(WeightLe + MaxOver)

\* WeightValid with the le bound left out
WeightValidNoLe(w) == w >= WeightGe

\* the validation of the weight field
WeightValid(w) == w >= WeightGe /\ w <= WeightLe

\* RelationRecord(..., weight=w, ...): the object is made when the field
\* validates, and pydantic raises ValidationError otherwise
ConstructRelationRecord(w) ==
    /\ IF WeightValid(w)
       THEN /\ made' = made \cup {[weight |-> w]}
            /\ attempt' = [weight |-> w, outcome |-> "ok"]
       ELSE /\ made' = made
            /\ attempt' = [weight |-> w, outcome |-> "ValidationError"]
    /\ UNCHANGED <<fs, store, runVars, cache, loads, scan, typed, ret>>

NextSchema == \E w \in Weights : ConstructRelationRecord(w)

SpecSchema == Init /\ [][NextSchema]_vars

----------------------------------------------------------------------------
(* Properties of index_timeline, checked under Spec.                       *)

ZeroResult == IndexResult(0, 0, 0)

ScannedPaths == {c.file_path : c \in Range(chapters)}

\* the scanned chapter c has its fresh hash recorded in the store the run found
Unchanged(c) ==
    \E r \in store0 : r.file_path = c.file_path /\ r.file_hash = c.file_hash

\* the run has computed its diff (it is past both early returns' tests)
Diffed == pc \in {"embed", "save", "delete", "done"} /\ chapters # <<>>

\* C1: a non-force run that repeats a successful run with the same arguments
\* and with no file changed in between reports indexed = updated = deleted = 0,
\* calls neither embed_texts nor the store's writes, and leaves the store as
\* it was.  (The claim covers force runs too; stated here for the runs where
\* idempotence is the pipeline's contract.)
C1_Idempotent ==
    (pc = "done" /\ repeat /\ ~args.force) =>
        /\ result = ZeroResult
        /\ calls = ZeroCalls
        /\ store = store0

\* C2: in a non-force run a scanned chapter is in to_index exactly when the
\* store holds no record of its path with the fresh hash; the texts handed to
\* embed_texts and the records of the upsert batch are those of to_index, so
\* an unchanged chapter is in neither.
C2_ChangeDetection ==
    (Diffed /\ ~args.force) =>
        /\ \A c \in Range(chapters) : (c \in Range(to_index)) <=> ~Unchanged(c)
        /\ Len(texts) \in {0, Len(to_index)}
        /\ Len(records) \in {0, Len(to_index)}
        /\ \A i \in DOMAIN texts : texts[i] = to_index[i].content
        /\ \A i \in DOMAIN records :
                /\ records[i].file_path = to_index[i].file_path
                /\ records[i].file_hash = to_index[i].file_hash
        /\ \A c \in Range(chapters) : Unchanged(c) =>
                \A i \in DOMAIN records : records[i].file_path # c.file_path

\* a completed non-force run that embedded and upserted a changed chapter
\* while another scanned chapter was unchanged
C2_Witness ==
    /\ pc = "done" /\ ~args.force
    /\ calls.embed = 1 /\ calls.upsert = 1
    /\ \E c \in Range(chapters) : Unchanged(c)
    /\ \E c \in Range(chapters) :
            /\ \E r \in store0 : r.file_path = c.file_path
            /\ ~Unchanged(c)

\* C3: at the end of a non-force run (taken without a collection filter, so
\* that the scanned path set is the whole scan) no record of the store the
\* run found whose path is missing from the scan is left, and the deleted
\* count is the number of those records.
C3_DeletionReconciled ==
    (pc = "done" /\ ~args.force /\ args.arc_filter = "") =>
        /\ \A r \in store : r.file_path \in ScannedPaths
        /\ result.deleted =
              Cardinality({r \in store0 : r.file_path \notin ScannedPaths})

\* C4: a run whose to_index and deleted_paths are both empty goes no further
\* than the test: it returns all-zero counts, has called neither embed_texts
\* nor upsert_chapters nor delete_chapters_by_paths, and the store is as it was.
C4_ShortCircuit ==
    /\ pc \in {"embed", "save", "delete"} =>
            ~(to_index = <<>> /\ deleted_paths = {})
    /\ (pc = "done" /\ to_index = <<>> /\ deleted_paths = {}) =>
            /\ result = ZeroResult
            /\ calls = ZeroCalls
            /\ store = store0

\* a run over a non-empty scan and a non-empty store that found no change
C4_Witness ==
    /\ pc = "done"
    /\ chapters # <<>> /\ store0 # {}
    /\ to_index = <<>> /\ deleted_paths = {}

\* C5: in a completed run indexed + updated is the number of chapters in
\* to_index; updated counts those whose path is in the stored set the run
\* diffed against (their stored hash then differs), indexed the others; the
\* stored set is the store's paths in a non-force run; and all of them go to
\* the store in one upsert call whose batch is to_index, record by record.
C5_Reporting ==
    pc = "done" =>
        LET known == {i \in DOMAIN to_index :
                        to_index[i].file_path \in DOMAIN existing_hashes}
        IN  /\ result.indexed + result.updated = Len(to_index)
            /\ result.updated = Cardinality(known)
            /\ result.indexed = Cardinality(DOMAIN to_index \ known)
            /\ \A i \in known :
                  existing_hashes[to_index[i].file_path] # to_index[i].file_hash
            /\ (~args.force /\ chapters # <<>>) =>
                  DOMAIN existing_hashes = StoredPaths(store0)
            /\ calls.upsert = IF to_index = <<>> THEN 0 ELSE 1
            /\ Len(records) = Len(to_index)
            /\ \A i \in DOMAIN records :
                  records[i].file_path = to_index[i].file_path

\* a completed run that wrote a new chapter and a changed one
C5_Witness ==
    /\ pc = "done"
    /\ result.indexed >= 1 /\ result.updated >= 1
    /\ calls.upsert = 1

\* C6: the store changes only in the save and delete steps, which come after
\* the embedding of all of to_index (every record carries the vector of its
\* chapter's text); and a run that ends with an exception has upserted
\* nothing, deleted nothing and left the store as it found it.
C6_EmbedBeforeWrite ==
    [][ /\ store' # store =>
            /\ pc \in {"save", "delete"}
            /\ error = ""
            /\ to_index # <<>> => calls.embed = 1
            /\ Len(records) = Len(to_index)
            /\ \A i \in DOMAIN records :
                  records[i].vector =
                      Encode(DEFAULT_MODEL, <<"passage: ", to_index[i].content>>)
        /\ pc' = "failed" =>
            /\ error' # ""
            /\ store' = store0'
            /\ calls'.upsert = 0 /\ calls'.delete = 0 ]_vars

\* a run that had chapters to embed and paths to delete, over a non-empty
\* store, and whose embed_texts call raised
C6_Witness ==
    /\ pc = "failed" /\ error = "EmbeddingError"
    /\ to_index # <<>> /\ deleted_paths # {}
    /\ store0 # {}

----------------------------------------------------------------------------
(* Properties of the embedding client, checked under SpecEmbed.            *)

\* C7: over any sequence of get_embedding_model, embed_texts and embed_query
\* calls, with any model names, the model of each name is constructed at most
\* once.
C7_LoadedOnce == \A m \in ModelNames : loads[m] <= 1

----------------------------------------------------------------------------
(* Properties of the scanner, checked under SpecScan.                      *)

\* a header block that is not a usable mapping
Malformed(content) == content.hdr \in {"yamlerr", "scalar"}

\* the files a scan has to report: readable, with their three path segments
Reportable(dir) == {p \in Candidates(dir) : ~ExtractNone(p, dir[p])}

\* C8: whatever the files' header blocks are, malformed ones included (YAML
\* that fails to parse, YAML that parses to a scalar or a list), scan_content
\* does not raise: it returns a record for every readable chapter file, and
\* the record of a file with a malformed header is the one an empty mapping
\* gives.
C8_MalformedLocal ==
    scan.status # "none" =>
        /\ scan.status = "ok"
        /\ \A p \in Reportable(fs) :
              \E c \in Range(scan.chapters) :
                  /\ c.file_path = p
                  /\ c.file_hash = compute_hash(fs[p])
                  /\ Malformed(fs[p]) =>
                        c.pov = PovOf(p, [pov |-> ""])

----------------------------------------------------------------------------
(* Properties of the vocabularies, checked under SpecTypes.                *)

----------------------------------------------------------------------------
(* Properties of RelationRecord, checked under SpecSchema.                 *)

\* C10: a construction with a weight below 0.0 or above 1.0 ends with a
\* validation error and makes no record (none with the weight clamped
\* either), and every record made has 0.0 <= weight <= 1.0.
C10_WeightBounds ==
    [][ /\ (attempt'.weight < WeightGe \/ attempt'.weight > WeightLe) =>
              /\ attempt'.outcome = "ValidationError"
              /\ made' = made
        /\ \A r \in made' : r.weight >= WeightGe /\ r.weight <= WeightLe
        /\ attempt'.outcome = "ok" => [weight |-> attempt'.weight] \in made'
      ]_vars

\* a weight of 1.1 has just been rejected while records with the weights 0.0
\* and 1.0 exist and none with another weight was made by the rejection
C10_Witness ==
    /\ attempt = [weight |-> WeightLe + 1, outcome |-> "ValidationError"]
    /\ [weight |-> WeightGe] \in made
    /\ [weight |-> WeightLe] \in made

----------------------------------------------------------------------------
(* Further properties of index_timeline, checked under Spec.               *)

\* the run is over, by a return or by an exception
Ended == pc \in {"done", "failed"}

\* what the quiet branch makes of the run's diff when the embedding service
\* answers: the records, the store after both writes, the counts
QuietRecords == Records(to_index, embed_texts(Texts(to_index), NoModel))

QuietStore ==
    delete_chapters_by_paths(upsert_chapters(store0, QuietRecords),
                             deleted_paths)

QuietResult ==
    LET indexed == CountIndexed(QuietRecords, existing_hashes)
        deleted == IF deleted_paths # {}
                   THEN DeletedCount(upsert_chapters(store0, QuietRecords),
                                     deleted_paths)
                   ELSE 0
    IN  IndexResult(indexed, Len(QuietRecords) - indexed, deleted)

\* C11: a run with progress reporting (quiet = False) ends as the run with
\* quiet = True over the same directory, store, force flag and filter can
\* end: with the scan's or the embedding service's failure, or with a return
\* that leaves the store and the counts the quiet branch produces.
C11_ProgressNotRequired ==
    (Ended /\ ~args.quiet) =>
        \/ pc = "failed" /\ error \in {"AttributeError", "EmbeddingError"}
        \/ /\ pc = "done"
           /\ store = QuietStore
           /\ result = QuietResult

----------------------------------------------------------------------------
(* Further properties of the embedding client, checked under SpecEmbed.    *)

\* the text a vector was encoded from: <<prefix, text>>
EncodedText(vector) == vector[2]

\* the names of the family that needs the passage / query prefixes
AsymmetricFamily == {DEFAULT_MODEL, E5Large}

\* C12: for every model name (None standing for the default) embed_texts
\* puts "passage: " before every document exactly when embed_query puts
\* "query: " before the query, both for the names of the e5 family and
\* neither for the others, whose texts reach the model unchanged; and what
\* the last call handed to the model follows the same rule.
C12_PrefixConsistency ==
    /\ \A m \in ModelKeys, ts \in TextLists, q \in 1..MaxTxt :
          LET docs  == embed_texts(ts, m)
              query == embed_query(q, m)
              fam   == ModelOr(m) \in AsymmetricFamily
          IN  /\ \A i \in DOMAIN docs :
                    /\ EncodedText(docs[i]) =
                          <<IF fam THEN "passage: " ELSE "", ts[i]>>
                    /\ (EncodedText(docs[i])[1] = "passage: ")
                          <=> (EncodedText(query)[1] = "query: ")
              /\ EncodedText(query) = <<IF fam THEN "query: " ELSE "", q>>
    /\ \A i \in DOMAIN ret.vectors :
          LET fam == ret.vectors[i][1] \in AsymmetricFamily
              pre == EncodedText(ret.vectors[i])[1]
          IN  /\ ret.call = "embed_texts" =>
                    pre = (IF fam THEN "passage: " ELSE "")
              /\ ret.call = "embed_query" =>
                    pre = (IF fam THEN "query: " ELSE "")

\* a query has been embedded under the capitalised e5 name, with its prefix
C12_Witness ==
    /\ ret.call = "embed_query"
    /\ ret.vectors = <<Encode(E5Large, <<"query: ", 1>>)>>
    /\ loads[E5Large] >= 1

----------------------------------------------------------------------------
(* index_timeline together with direct calls of embed_texts, over a small  *)
(* directory: the runs that have nothing to embed and the calls with an    *)
(* empty list.                                                             *)

\* the files written in this setting: two chapters of two arcs, two bodies
FewPaths == {PA1, PB1}
FewContents == {MkContent("none", 0, 0, "", 1), MkContent("none", 0, 0, "", 2)}

\* another caller embeds a list, empty or not, between two runs
EmbedBetweenRuns(ts) ==
    /\ Idle
    /\ CallEmbedTexts(ts, NoModel)

NextNoWork ==
    \/ \E force \in BOOLEAN, arc_filter \in ArcFilters, quiet \in BOOLEAN :
            Start(force, arc_filter, quiet)
    \/ EmbedSkip
    \/ EmbedQuiet
    \/ EmbedFails
    \/ EmbedProgress
    \/ Save
    \/ Delete
    \/ \E p \in FewPaths, c \in FewContents : WriteFile(p, c)
    \/ \E p \in FewPaths : RemoveFile(p)
    \/ \E ts \in {<<>>, <<1>>} : EmbedBetweenRuns(ts)

SpecNoWork == Init /\ [][NextNoWork]_vars

\* C13: a call of embed_texts that returns the empty list (the call with an
\* empty list) leaves the model cache and the load counts as they were; a run
\* whose to_index is empty, the run with an empty scan included, goes from
\* the diff to its end without calling embed_texts and without a model load;
\* and the run with an empty scan returns all-zero counts.
C13_NothingToEmbed ==
    [][ /\ (pc' = pc /\ ret'.call = "embed_texts" /\ ret'.vectors = <<>>) =>
              /\ cache' = cache
              /\ loads' = loads
        /\ (pc = "embed" /\ to_index = <<>>) =>
              /\ cache' = cache
              /\ loads' = loads
        /\ (pc' \in {"save", "delete", "done"} /\ to_index' = <<>>) =>
              /\ calls'.embed = 0
              /\ texts' = <<>>
              /\ records' = <<>>
        /\ (pc' = "done" /\ chapters' = <<>>) =>
              /\ result' = ZeroResult
              /\ calls'.embed = 0
      ]_vars

\* a run with chapters scanned, none to embed and a path to delete has ended
\* without an embed_texts call, and the last direct call of embed_texts was
\* one with an empty list
C13_Witness ==
    /\ pc = "done"
    /\ chapters # <<>>
    /\ to_index = <<>>
    /\ calls = [embed |-> 0, upsert |-> 0, delete |-> 1]
    /\ ret = [call |-> "embed_texts", vectors |-> <<>>]

----------------------------------------------------------------------------
(* Force mode, checked under Spec.                                         *)

\* the ids of the records of the upsert batch
RecordIds == {records[i].id : i \in DOMAIN records}

\* C14: a force run works with an empty stored set.  Once its diff is made,
\* to_index is the whole filtered scan and deleted_paths is empty whatever
\* the store records; and when the run returns, every scanned chapter was
\* embedded and is in the one upsert batch, the store holds a record of each
\* of their ids, all of them are counted under indexed with updated = 0 and
\* deleted = 0, delete_chapters_by_paths was not called and the records of
\* the other ids are all still there.
C14_ForceMode ==
    /\ (Diffed /\ args.force) =>
          /\ existing_hashes = EmptyMap
          /\ to_index = chapters
          /\ deleted_paths = {}
    /\ (pc = "done" /\ args.force /\ chapters # <<>>) =>
          /\ texts = Texts(chapters)
          /\ Len(records) = Len(chapters)
          /\ \A i \in DOMAIN records :
                /\ records[i].file_path = chapters[i].file_path
                /\ records[i].file_hash = chapters[i].file_hash
                /\ \E r \in store : r.id = records[i].id
          /\ calls = [embed |-> 1, upsert |-> 1, delete |-> 0]
          /\ result = IndexResult(Len(chapters), 0, 0)
          /\ \A r \in store0 : r.id \notin RecordIds => r \in store
    /\ (pc = "done" /\ args.force /\ chapters = <<>>) =>
          /\ result = ZeroResult
          /\ store = store0

\* a force run has returned after embedding a chapter whose fresh hash the
\* store already held, with a stored record left whose file is gone
C14_Witness ==
    /\ pc = "done" /\ args.force
    /\ \E c \in Range(chapters) : Unchanged(c)
    /\ \E r \in store : r.file_path \notin DOMAIN fs
    /\ result.indexed >= 1

----------------------------------------------------------------------------
(* The order of the store writes, checked under Spec.                      *)

\* C15: in one run upsert_chapters is called at most once and
\* delete_chapters_by_paths at most once; the upsert is a step of its own
\* taken before any delete of the run, the delete a step of its own taken
\* after the upsert step is over, no step does both, and the store changes
\* in these two steps only.
C15_WriteOrdering ==
    [][ /\ calls'.upsert <= 1
        /\ calls'.delete <= 1
        /\ calls'.upsert > calls.upsert =>
              /\ pc = "save" /\ pc' = "delete"
              /\ calls.delete = 0 /\ calls'.delete = 0
        /\ calls'.delete > calls.delete =>
              /\ pc = "delete" /\ pc' = "done"
              /\ calls'.upsert = calls.upsert
        /\ store' # store =>
              \/ calls'.upsert > calls.upsert
              \/ calls'.delete > calls.delete
      ]_vars

\* a run has returned after one upsert batch and one delete batch
C15_Witness ==
    /\ pc = "done"
    /\ calls.upsert = 1
    /\ calls.delete = 1
    /\ store # store0

----------------------------------------------------------------------------
(* The upsert batch against the delete set, checked under Spec.            *)

\* the records of the store the run found that its delete set selects
SelectedForDeletion == {r \in store0 : r.file_path \in deleted_paths}

\* C16: in every run, no record of the upsert batch has the file path or the
\* chapter id of a stored record selected for deletion.
C16_UpsertDeleteDisjoint ==
    \A i \in DOMAIN records, r \in SelectedForDeletion :
        /\ records[i].file_path # r.file_path
        /\ records[i].id # r.id

----------------------------------------------------------------------------
(* The point-of-view label, checked under SpecScan.                        *)

\* the pov value of a file's header; "" when the header has none
HeaderPov(content) == IF content.hdr = "map" THEN content.pov ELSE ""

\* the label by the rule "header, else third token of the base name when it
\* has three tokens, else unknown"
PovByTokens(file_path, content) ==
    IF HeaderPov(content) # "" THEN Lower(HeaderPov(content))
    ELSE IF Len(file_path.stem) >= 3 THEN Lower(file_path.stem[3].s)
    ELSE "unknown"

\* the label by the rule "header, else third token of the base name when the
\* name starts with epNN-chNNN and has three tokens, else unknown"
PovByConvention(file_path, content) ==
    IF HeaderPov(content) # "" THEN Lower(HeaderPov(content))
    ELSE IF ch_match(file_path) /\ Len(file_path.stem) >= 3
         THEN Lower(file_path.stem[3].s)
    ELSE "unknown"

----------------------------------------------------------------------------
(* The collection filter, checked under Spec.                              *)

\* the collection (arc) a stored record belongs to
ArcOf(r) == r.id[1]

\* C18: a run with an arc_filter leaves the records of the other arcs
\* alone: none of them is in the upsert batch, and when the run returns
\* every record of another arc whose file still exists is in the store as it
\* was.
C18_FilterFrame ==
    args.arc_filter # "" =>
        /\ \A i \in DOMAIN records : ArcOf(records[i]) = args.arc_filter
        /\ pc = "done" =>
              \A r \in store0 :
                  (ArcOf(r) # args.arc_filter /\ r.file_path \in DOMAIN fs)
                      => r \in store

----------------------------------------------------------------------------
(* The store against the scan after a run, checked under Spec.             *)

\* the (file_path, file_hash) pairs of a set of records or chapters
PathHashPairs(S) == {<<x.file_path, x.file_hash>> : x \in S}

\* C19: when a non-force run without an arc_filter returns, the store holds
\* the same (file_path, file_hash) pairs as the scan, whatever the store was
\* before and whether or not two scanned files derive the same id.
C19_StoreMatchesScan ==
    (pc = "done" /\ ~args.force /\ args.arc_filter = "") =>
        PathHashPairs(store) = PathHashPairs(Range(chapters))

====
